---- MODULE Spec2Model ----
(***************************************************************************)
(* Model of the checkout GraphQL client (node/clients/checkout/index.ts)   *)
(* and of the getXCart resolver (node/resolvers/getXCart.ts).              *)
(*                                                                         *)
(* One invocation of one of the four wrappers is followed from the call    *)
(* to the settlement of the promise it returns.  Every JavaScript value is *)
(* a record with a "kind" field, so that null, undefined, strings,         *)
(* numbers, arrays and objects stay distinct and `===` is record equality. *)
(***************************************************************************)
EXTENDS Integers, Sequences, FiniteSets, TLC

VARIABLES
    pc,          \* position of the invocation: idle, awaiting, normalize, project, resume, settled
    op,          \* the wrapper that was invoked ("none" before the call)
    args,        \* the arguments the caller gave to the wrapper
    calls,       \* the calls issued to the backing capability, in order
    backing,     \* settlement of the backing capability's promise
    normalized,  \* settlement of the promise returned by .then(throwOnGraphQLErrors(..))
    result,      \* settlement of the promise the wrapper returned to its caller
    log          \* what getXCart wrote with console.log, in order

vars == <<pc, op, args, calls, backing, normalized, result, log>>

----------------------------------------------------------------------------
(* Bounds of the model *)

\* longest `errors` array a response carries
MaxErrors == 2
\* longest `items` array an order form carries
MaxItems == 1

----------------------------------------------------------------------------
(* JavaScript values *)

Undefined == [kind |-> "undefined"]
Null      == [kind |-> "null"]
Str(s)    == [kind |-> "string", s |-> s]
Num(n)    == [kind |-> "number", n |-> n]
Bool(b)   == [kind |-> "boolean", b |-> b]
Arr(e)    == [kind |-> "array", elems |-> e]

\* null and undefined: a property read on them throws, `?.` short-circuits on them
Nullish(v) == v.kind \in {"undefined", "null"}

\* ToBoolean, as used by `&&` in throwOnGraphQLErrors
Truthy(v) ==
    CASE v.kind \in {"undefined", "null"} -> FALSE
      [] v.kind = "boolean" -> v.b
      [] v.kind = "number"  -> v.n # 0
      [] v.kind = "string"  -> v.s # ""
      [] OTHER -> TRUE

\* v.f on a value that is not null or undefined: a missing property reads undefined
Get(v, f) == IF f \in DOMAIN v THEN v[f] ELSE Undefined

\* v?.f
OptGet(v, f) == IF Nullish(v) THEN Undefined ELSE Get(v, f)

\* a == b, for the primitives the model holds
LooseEquals(a, b) ==
    \/ a = b
    \/ Nullish(a) /\ Nullish(b)
    \/ a.kind = "string" /\ b.kind = "number" /\ a.s = ToString(b.n)
    \/ a.kind = "number" /\ b.kind = "string" /\ b.s = ToString(a.n)

\* a === b, for the primitives the model holds
StrictEquals(a, b) == a = b

\* settlements of a promise; completions of a callback (return / throw)
Pending      == [state |-> "pending", value |-> Undefined]
Fulfilled(v) == [state |-> "fulfilled", value |-> v]
Rejected(e)  == [state |-> "rejected", value |-> e]

\* the error the runtime raises for a property read on null or undefined
TypeError == [kind |-> "error", name |-> Str("TypeError")]

----------------------------------------------------------------------------
(* The class CustomGraphQLError and the normalizer throwOnGraphQLErrors *)

\* new CustomGraphQLError(message, graphQLErrors)
CustomGraphQLError(message, graphQLErrors) ==
    [kind |-> "error", name |-> Str("CustomGraphQLError"),
     message |-> Str(message), graphQLErrors |-> graphQLErrors]

\* variant: a response that carries data is taken as a success
throwOnGraphQLErrors_dataWins(message, response) ==
    IF /\ Truthy(response)
       /\ ~Truthy(Get(response, "data"))
       /\ Truthy(Get(response, "errors"))
       /\ Len(Get(response, "errors").elems) > 0
    THEN Rejected(CustomGraphQLError(message, Get(response, "errors")))
    ELSE Fulfilled(response)

\* variant: the length of `errors` is not looked at
throwOnGraphQLErrors_noLength(message, response) ==
    IF /\ Truthy(response)
       /\ Truthy(Get(response, "errors"))
    THEN Rejected(CustomGraphQLError(message, Get(response, "errors")))
    ELSE Fulfilled(response)

\* throwOnGraphQLErrors(message)(response): the completion of maybeGraphQLResponse
throwOnGraphQLErrors(message, response) ==
    IF /\ Truthy(response)
       /\ Truthy(Get(response, "errors"))
       /\ Len(Get(response, "errors").elems) > 0
    THEN Rejected(CustomGraphQLError(message, Get(response, "errors")))
    ELSE Fulfilled(response)

\* variant: one message shared by the three wrappers
ContextMessage_shared(o) == "Error getting data from vtex.checkout-graphql"

\* the context message each wrapper gives to throwOnGraphQLErrors
ContextMessage(o) ==
    CASE o = "getOrderFormItems" -> "Error getting items data from vtex.checkout-graphql"
      [] o = "getOrderForm"      -> "Error getting data from vtex.checkout-graphql"
      [] o = "updateCart"        -> "Error updating items with vtex.checkout-graphql"

\* (query) => query.data!.orderForm.items   (the `!` is erased at run time)
ProjectItems(query) ==
    IF Nullish(query) THEN Rejected(TypeError)
    ELSE IF Nullish(Get(query, "data")) THEN Rejected(TypeError)
    ELSE IF Nullish(Get(Get(query, "data"), "orderForm")) THEN Rejected(TypeError)
    ELSE Fulfilled(Get(Get(Get(query, "data"), "orderForm"), "items"))

\* variant: (query) => query?.data?.orderForm
ProjectOrderForm_optional(query) ==
    Fulfilled(OptGet(OptGet(query, "data"), "orderForm"))

\* (query) => query.data!.orderForm
ProjectOrderForm(query) ==
    IF Nullish(query) THEN Rejected(TypeError)
    ELSE IF Nullish(Get(query, "data")) THEN Rejected(TypeError)
    ELSE Fulfilled(Get(Get(query, "data"), "orderForm"))

\* variant: every wrapper projects to orderForm
Project_orderFormOnly(o, query) == ProjectOrderForm(query)

\* the second .then callback of each wrapper
Project(o, query) ==
    IF o = "getOrderFormItems" THEN ProjectItems(query) ELSE ProjectOrderForm(query)

----------------------------------------------------------------------------
(* The try and catch blocks of getXCart *)

\* the status the resolver compares with
NotFoundStatus == 404

\* variant: return orderformId?.orderformId
TryReturn_unwrap(orderformId) == Fulfilled(OptGet(orderformId, "orderformId"))

\* try: return orderformId
TryReturn(orderformId) == Fulfilled(orderformId)

\* variant: the catch block rethrows whatever the status
CatchBlock_rethrow(err) == Rejected(err)

\* catch (err): null on an embedded status 404, the same error otherwise
CatchBlock(err) ==
    LET status == OptGet(OptGet(err, "response"), "status")
    IN  IF StrictEquals(status, Num(NotFoundStatus))
        THEN Fulfilled(Null)
        ELSE Rejected(err)

----------------------------------------------------------------------------
(* The values the callers and the backing capabilities supply *)

\* sequences over S of length at most n
SeqsUpTo(S, n) == UNION {[1..k -> S] : k \in 0..n}

OrderFormIds == {Str("of-1"), Str("of-2")}
UserIds      == {Str("user-42"), Str("user-7")}

\* ItemInput[] arguments of updateCart
ItemInputs ==
    {Arr(<<>>), Arr(<<[kind |-> "object", id |-> Str("sku1"), quantity |-> Num(2)]>>)}

\* entries of a response's `errors` array
GraphQLErrors ==
    {[kind |-> "object", message |-> Str("out of stock")],
     [kind |-> "object", message |-> Str("orderForm not found")]}

\* response.errors: absent, null, or an array of at most MaxErrors entries
ErrorsFields == {Undefined, Null} \cup {Arr(e) : e \in SeqsUpTo(GraphQLErrors, MaxErrors)}

PartialItems ==
    {[kind |-> "object", id |-> Str("sku1")], [kind |-> "object", id |-> Str("sku2")]}

\* response.data: absent, null, or { orderForm: { items: [...] } }
DataFields ==
    {Undefined, Null} \cup
    {[kind |-> "object",
      orderForm |-> [kind |-> "object", items |-> Arr(i)]] : i \in SeqsUpTo(PartialItems, MaxItems)}

\* GraphQLResponse<T>, or a missing response
Responses ==
    {Undefined, Null} \cup
    {[kind |-> "response", data |-> d, errors |-> e] : d \in DataFields, e \in ErrorsFields}

\* response.status of a thrown error: a number, a string, or absent
Statuses == {Num(NotFoundStatus), Num(500), Str("404"), Undefined}

\* what a backing capability can reject with: error objects with and without
\* an embedded response / status, and the non-object values null and undefined
ThrownValues ==
    {[kind |-> "error", name |-> Str("Error"),
      response |-> [kind |-> "object", status |-> st]] : st \in Statuses}
    \cup {[kind |-> "error", name |-> Str("Error")],
          [kind |-> "error", name |-> Str("Error"), response |-> Null],
          Null, Undefined}

\* what vbase.getJSON can resolve to
StoredValues ==
    {[kind |-> "object", orderformId |-> Str("of-1")],
     [kind |-> "object", orderformId |-> Null],
     [kind |-> "object"],
     Str("of-1"), Null, Undefined}

GraphQLOps == {"getOrderFormItems", "getOrderForm", "updateCart"}

----------------------------------------------------------------------------
(* The invocation *)

Init ==
    /\ pc = "idle"
    /\ op = "none"
    /\ args = <<>>
    /\ calls = <<>>
    /\ backing = Pending
    /\ normalized = Pending
    /\ result = Pending
    /\ log = <<>>

\* getOrderFormItems, up to the await: this.graphql.query(...)
getOrderFormItems(orderFormId) ==
    /\ pc = "idle"
    /\ op' = "getOrderFormItems"
    /\ args' = <<orderFormId>>
    /\ calls' = Append(calls,
          [method |-> "graphql.query",
           args |-> <<Str("GET_ORDERFORM_ITEMS_QUERY"),
                      [kind |-> "object", orderFormId |-> orderFormId],
                      Str("checkout-orderform")>>])
    /\ pc' = "awaiting"
    /\ UNCHANGED <<backing, normalized, result, log>>

\* getOrderForm, up to the await: this.graphql.query(...)
getOrderForm(orderFormId) ==
    /\ pc = "idle"
    /\ op' = "getOrderForm"
    /\ args' = <<orderFormId>>
    /\ calls' = Append(calls,
          [method |-> "graphql.query",
           args |-> <<Str("GET_ORDERFORM_QUERY"),
                      [kind |-> "object", orderFormId |-> orderFormId],
                      Str("checkout-orderform")>>])
    /\ pc' = "awaiting"
    /\ UNCHANGED <<backing, normalized, result, log>>

\* updateCart, up to the await: this.graphql.mutate(...)
updateCart(orderFormId, items) ==
    /\ pc = "idle"
    /\ op' = "updateCart"
    /\ args' = <<orderFormId, items>>
    /\ calls' = Append(calls,
          [method |-> "graphql.mutate",
           args |-> <<Str("UPDATE_CART_MUTATION"),
                      [kind |-> "object", orderFormId |-> orderFormId, items |-> items],
                      Str("checkout-update-items")>>])
    /\ pc' = "awaiting"
    /\ UNCHANGED <<backing, normalized, result, log>>

\* the arguments getXCart gives to vbase.getJSON
GetJSONArgs(userId) == <<Str("vtex.cross-device-cart"), userId, Bool(TRUE)>>

\* getXCart, up to the await: console.log, then ctx.clients.vbase.getJSON(...)
getXCart(userId) ==
    /\ pc = "idle"
    /\ op' = "getXCart"
    /\ args' = <<userId>>
    /\ log' = Append(log, <<Str("-----------------NODE DEBUG-----------------------")>>)
    /\ calls' = Append(calls, [method |-> "vbase.getJSON", args |-> GetJSONArgs(userId)])
    /\ pc' = "awaiting"
    /\ UNCHANGED <<backing, normalized, result>>

\* the transport settles the promise of graphql.query / graphql.mutate
GraphQLSettles ==
    /\ pc = "awaiting"
    /\ op \in GraphQLOps
    /\ \E s \in {Fulfilled(r) : r \in Responses} \cup {Rejected(e) : e \in ThrownValues} :
          backing' = s
    /\ pc' = "normalize"
    /\ UNCHANGED <<op, args, calls, normalized, result, log>>

\* the store settles the promise of vbase.getJSON
GetJSONSettles ==
    /\ pc = "awaiting"
    /\ op = "getXCart"
    /\ \E s \in {Fulfilled(v) : v \in StoredValues} \cup {Rejected(e) : e \in ThrownValues} :
          backing' = s
    /\ pc' = "resume"
    /\ UNCHANGED <<op, args, calls, normalized, result, log>>

\* .then(throwOnGraphQLErrors(message)): the callback runs on a fulfilled
\* promise, a rejection passes through
maybeGraphQLResponse ==
    /\ pc = "normalize"
    /\ normalized' = IF backing.state = "fulfilled"
                     THEN throwOnGraphQLErrors(ContextMessage(op), backing.value)
                     ELSE backing
    /\ pc' = "project"
    /\ UNCHANGED <<op, args, calls, backing, result, log>>

\* variant: the wrapper ends in the catch block of getXCart
ProjectAndReturn_catch ==
    /\ pc = "project"
    /\ result' = IF normalized.state = "fulfilled"
                 THEN Project(op, normalized.value)
                 ELSE CatchBlock(normalized.value)
    /\ pc' = "settled"
    /\ UNCHANGED <<op, args, calls, backing, normalized, log>>

\* .then((query) => ...), the await and the return of the wrapper
ProjectAndReturn ==
    /\ pc = "project"
    /\ result' = IF normalized.state = "fulfilled"
                 THEN Project(op, normalized.value)
                 ELSE normalized
    /\ pc' = "settled"
    /\ UNCHANGED <<op, args, calls, backing, normalized, log>>

\* variant: the catch block asks the store once more before it gives up
getXCartResume_retry ==
    /\ pc = "resume"
    /\ IF backing.state = "fulfilled"
       THEN /\ log' = Append(log, <<backing.value>>)
            /\ result' = TryReturn(backing.value)
            /\ pc' = "settled"
            /\ UNCHANGED <<calls, backing>>
       ELSE /\ log' = Append(log, <<Str("----------------------------------------"),
                                    backing.value>>)
            /\ IF Len(calls) < 2 /\ CatchBlock(backing.value).state = "rejected"
               THEN /\ calls' = Append(calls, calls[1])
                    /\ backing' = Pending
                    /\ pc' = "awaiting"
                    /\ UNCHANGED result
               ELSE /\ result' = CatchBlock(backing.value)
                    /\ pc' = "settled"
                    /\ UNCHANGED <<calls, backing>>
    /\ UNCHANGED <<op, args, normalized>>

\* getXCart after the await: the rest of the try block, or the catch block
getXCartResume ==
    /\ pc = "resume"
    /\ IF backing.state = "fulfilled"
       THEN /\ log' = Append(log, <<backing.value>>)
            /\ result' = TryReturn(backing.value)
       ELSE /\ log' = Append(log, <<Str("----------------------------------------"),
                                    backing.value>>)
            /\ result' = CatchBlock(backing.value)
    /\ pc' = "settled"
    /\ UNCHANGED <<op, args, calls, backing, normalized>>

Next ==
    \/ \E o \in OrderFormIds : getOrderFormItems(o)
    \/ \E o \in OrderFormIds : getOrderForm(o)
    \/ \E o \in OrderFormIds, i \in ItemInputs : updateCart(o, i)
    \/ \E u \in UserIds : getXCart(u)
    \/ GraphQLSettles
    \/ GetJSONSettles
    \/ maybeGraphQLResponse
    \/ ProjectAndReturn
    \/ getXCartResume

Spec == Init /\ [][Next]_vars

\* the event loop runs the continuation of every settled promise
FairSpec ==
    /\ Spec
    /\ WF_vars(maybeGraphQLResponse)
    /\ WF_vars(ProjectAndReturn)
    /\ WF_vars(getXCartResume)

----------------------------------------------------------------------------
(* Properties *)

\* a response that is present and whose errors array is non-empty
HasErrors(r) ==
    /\ r.kind = "response"
    /\ r.errors.kind = "array"
    /\ r.errors.elems # <<>>

\* a thrown value with an embedded response.status of exactly the number 404
Status404(e) ==
    /\ e.kind = "error"
    /\ "response" \in DOMAIN e
    /\ e.response.kind = "object"
    /\ e.response.status = [kind |-> "number", n |-> 404]

\* the first .then of a GraphQL wrapper has run on a fulfilled transport promise
NormalizerRan ==
    /\ op \in GraphQLOps
    /\ pc \in {"project", "settled"}
    /\ backing.state = "fulfilled"

\* a GraphQL wrapper has settled after its transport promise fulfilled
GraphQLDone ==
    /\ op \in GraphQLOps
    /\ pc = "settled"
    /\ backing.state = "fulfilled"

\* getXCart has settled
XCartDone == op = "getXCart" /\ pc = "settled"

\* C1: on a response that is present and has a non-empty errors array the
\* normalizer throws a CustomGraphQLError whose message is the context message
\* and whose graphQLErrors is response.errors, whatever data is; it never
\* returns the response.
C1_ErrorsAlwaysThrow ==
    (NormalizerRan /\ HasErrors(backing.value)) =>
        /\ normalized.state = "rejected"
        /\ normalized.value.name = Str("CustomGraphQLError")
        /\ normalized.value.message = Str(ContextMessage(op))
        /\ normalized.value.graphQLErrors = backing.value.errors

\* C1 happens: errors are non-empty, data is populated, and the normalizer threw
C1_Witness ==
    /\ NormalizerRan
    /\ HasErrors(backing.value)
    /\ backing.value.data.kind = "object"
    /\ normalized.state = "rejected"

\* C2: on a response whose errors array is empty, null or absent, and on a
\* null or absent response, the normalizer returns the very value it was given.
C2_NoErrorsPassThrough ==
    (NormalizerRan /\ ~HasErrors(backing.value)) => normalized = backing

\* C2 happens: a response with an empty errors array went through unchanged
C2_Witness ==
    /\ NormalizerRan
    /\ backing.value.kind = "response"
    /\ backing.value.errors = Arr(<<>>)
    /\ normalized = Fulfilled(backing.value)

\* C3: when getJSON rejects with an error whose response.status is exactly 404,
\* getXCart resolves to null.
C3_NotFoundIsNull ==
    (XCartDone /\ backing.state = "rejected" /\ Status404(backing.value)) =>
        result = Fulfilled(Null)

\* C3 happens: getJSON rejected with status 404 and getXCart has settled
C3_Witness ==
    /\ XCartDone
    /\ backing.state = "rejected"
    /\ Status404(backing.value)
    /\ result.state = "fulfilled"

\* C4: when getJSON rejects with anything that has no embedded status 404
\* (another status, no status, no response, a non-object), getXCart rejects with
\* that same value.
C4_OtherErrorsRethrown ==
    (XCartDone /\ backing.state = "rejected" /\ ~Status404(backing.value)) =>
        result = Rejected(backing.value)

\* C4 happens: getJSON rejected with status 500 and getXCart rejected
C4_Witness ==
    /\ XCartDone
    /\ backing.state = "rejected"
    /\ backing.value.kind = "error"
    /\ "response" \in DOMAIN backing.value
    /\ backing.value.response.kind = "object"
    /\ backing.value.response.status = Num(500)
    /\ result.state = "rejected"

\* C5: getXCart calls getJSON with the namespace "vtex.cross-device-cart", the
\* caller's userId and true, and when that call succeeds it resolves to exactly
\* the value the store returned.
C5_StoreValuePassThrough ==
    /\ (op = "getXCart") =>
          calls = <<[method |-> "vbase.getJSON",
                     args |-> <<Str("vtex.cross-device-cart"), args[1], Bool(TRUE)>>]>>
    /\ (XCartDone /\ backing.state = "fulfilled") => result = Fulfilled(backing.value)

\* C5 happens: the store returned { orderformId: null } and getXCart has settled
C5_Witness ==
    /\ XCartDone
    /\ backing = Fulfilled([kind |-> "object", orderformId |-> Null])
    /\ result.state = "fulfilled"

OwnMessage ==
    [getOrderFormItems |-> "Error getting items data from vtex.checkout-graphql",
     getOrderForm      |-> "Error getting data from vtex.checkout-graphql",
     updateCart        |-> "Error updating items with vtex.checkout-graphql"]

\* C7: when the transport returns a response with a non-empty errors array, each
\* GraphQL wrapper rejects with a CustomGraphQLError that carries those errors
\* and the wrapper's own context string, also when data is null.
C7_WrapperRejectsWithOwnMessage ==
    (GraphQLDone /\ HasErrors(backing.value)) =>
        result = Rejected([kind |-> "error", name |-> Str("CustomGraphQLError"),
                           message |-> Str(OwnMessage[op]),
                           graphQLErrors |-> backing.value.errors])

\* C7 happens: updateCart on {data:null, errors:[{message:"out of stock"}]}
C7_Witness ==
    /\ GraphQLDone
    /\ op = "updateCart"
    /\ backing.value.kind = "response"
    /\ backing.value.data = Null
    /\ backing.value.errors = Arr(<<[kind |-> "object", message |-> Str("out of stock")]>>)
    /\ result.state = "rejected"

\* C8: when the transport returns no errors and data is absent or null, or the
\* response itself is absent or null, each GraphQL wrapper rejects.
C8_MissingDataRejects ==
    (/\ GraphQLDone
     /\ ~HasErrors(backing.value)
     /\ \/ backing.value.kind \in {"undefined", "null"}
        \/ backing.value.data.kind \in {"undefined", "null"}) =>
        result.state = "rejected"

\* C8 happens: getOrderForm on a response with errors [] and no data
C8_Witness ==
    /\ GraphQLDone
    /\ op = "getOrderForm"
    /\ backing.value.kind = "response"
    /\ backing.value.errors = Arr(<<>>)
    /\ backing.value.data = Undefined
    /\ result.state = "rejected"

\* C9: a rejection of the backing capability becomes a resolved value only in
\* getXCart with an embedded status 404; a GraphQL wrapper whose transport call
\* rejects (also with status 404) rejects with the same value, and a response
\* with non-empty errors never resolves.
C9_OnlyNotFoundIsSwallowed ==
    (pc = "settled") =>
        /\ (op \in GraphQLOps /\ backing.state = "rejected") => result = backing
        /\ (backing.state = "rejected" /\ result.state = "fulfilled") =>
              (op = "getXCart" /\ Status404(backing.value))
        /\ (op \in GraphQLOps /\ backing.state = "fulfilled" /\ HasErrors(backing.value)) =>
              result.state = "rejected"

\* C9 happens: the transport rejected with status 404 and the wrapper rejected
C9_Witness ==
    /\ pc = "settled"
    /\ op \in GraphQLOps
    /\ backing.state = "rejected"
    /\ Status404(backing.value)
    /\ result.state = "rejected"

\* C10: every invocation issues exactly one call to its backing capability,
\* whatever the outcome, and it settles once that call has settled.
C10_SingleShot ==
    /\ [](/\ Len(calls) <= 1
          /\ (pc # "idle") => Len(calls) = 1
          /\ (result.state # "pending") <=> (pc = "settled"))
    /\ (backing.state # "pending") ~> (result.state # "pending")

\* C10 happens: the one call failed and the invocation has settled
C10_Witness ==
    /\ pc = "settled"
    /\ backing.state = "rejected"
    /\ ~Status404(backing.value)
    /\ result.state = "rejected"
    /\ Len(calls) = 1

====
